---------------------------- MODULE Spec2Model ----------------------------
(***************************************************************************)
(* A model of macosx/tkMacOSXImage.c: the XImage layer (XCreateImage, the  *)
(* get_pixel / put_pixel transcoders, the XImage -> CGImage conversion),   *)
(* the drawing entry points (XPutImage, TkpPutRGBAImage, XCopyArea,        *)
(* XCopyPlane, XGetImage) and the nsimage image type; and of               *)
(* macosx/tkMacOSXPrint.c: the print dialog (StartPrint, FinishPrint).     *)
(*                                                                         *)
(* The parts do not feed one another, so each has a specification of       *)
(* its own over the same variables:                                        *)
(*   SpecImage  XCreateImage and TkMacOSXCreateCGImageWithXImage           *)
(*   SpecPixel  ImagePutPixel / ImageGetPixel on images of every depth     *)
(*   SpecDraw   XPutImage, TkpPutRGBAImage, XCopyArea, XCopyPlane,         *)
(*              XGetImage                                                  *)
(*   SpecNS     the nsimage master, its instances and its command          *)
(*   SpecPrint  the ::tk::print::_print command and its print dialog       *)
(***************************************************************************)
EXTENDS Integers, Sequences, FiniteSets

VARIABLES
    request,     \* display->request, the request counter of the Display
    ximage,      \* the XImage under consideration, or NULL
    createArgs,  \* the arguments of the XCreateImage call that made ximage
    cg,          \* outcome of the last TkMacOSXCreateCGImageWithXImage
    lastPut,     \* the last put_pixel call: [x, y, pixel], or NULL
    lastGet,     \* the last get_pixel call: [x, y, r, g, b, put], or NULL
    nputs,       \* number of put_pixel calls made
    call,        \* record of the last drawing call (SpecDraw), or NULL
    master,      \* the TkNSImageMaster, or NULL when none exists
    instances,   \* the live TkNSImageInstance records
    nextImg,     \* the next fresh NSImage identity
    lastCfg,     \* outcome of the last TkNSImageConfigureMaster, or NULL
    lastCmd,     \* outcome of the last TkNSImageObjCmd, or NULL
    lastDraw,    \* what the last TkNSImageDisplay drew, or NULL
    refs,        \* references the nsimage master owns, per NSImage identity
    urlFile,     \* the global urlFile: NULL or the file path it points to
    retained,    \* CFRetain calls on file paths not yet matched by CFRelease
    print        \* record of the last StartPrint invocation, or NULL

vars == <<request, ximage, createArgs, cg, lastPut, lastGet, nputs, call,
          master, instances, nextImg, lastCfg, lastCmd, lastDraw, refs,
          urlFile, retained, print>>

imageVars == <<ximage, createArgs, cg>>
pixelVars == <<lastPut, lastGet, nputs>>
nsVars    == <<master, instances, nextImg, lastCfg, lastCmd, lastDraw, refs>>
printVars == <<urlFile, retained, print>>

\* The null pointer, for the variables and fields that hold a record.
NULL == [null |-> TRUE]

---------------------------------------------------------------------------
(* Bounds of the model.                                                    *)

MaxWidth   == 3     \* image widths 0..MaxWidth
MaxHeight  == 2     \* image heights 0..MaxHeight
MaxOffset  == 1     \* xoffset 0..MaxOffset
MaxRequest == 2     \* display->request is counted up to this
MaxPuts    == 2     \* put_pixel calls per run
MaxDraw    == 2     \* widths and heights 0..MaxDraw of the drawing calls
MaxLoads   == 2     \* NSImages loaded by the nsimage master per run
MaxInstances == 2   \* live instances of the nsimage master
MaxPrints  == 3     \* StartPrint invocations per run

---------------------------------------------------------------------------
(* C integer operators on non-negative values.  BitAndNot(x, m) is         *)
(* x & ~m; with m = -1 (all bits set) the floor division of TLA+ keeps m   *)
(* at -1 and every bit of x is cleared, as in two's complement.            *)

RECURSIVE BitAnd(_, _)
BitAnd(a, b) ==
    IF a = 0 \/ b = 0 THEN 0
    ELSE (a % 2) * (b % 2) + 2 * BitAnd(a \div 2, b \div 2)

RECURSIVE BitOr(_, _)
BitOr(a, b) ==
    IF a = 0 THEN b
    ELSE IF b = 0 THEN a
    ELSE (IF (a % 2) + (b % 2) > 0 THEN 1 ELSE 0)
         + 2 * BitOr(a \div 2, b \div 2)

RECURSIVE BitAndNot(_, _)
BitAndNot(x, m) ==
    IF x = 0 THEN 0
    ELSE (x % 2) * (1 - (m % 2)) + 2 * BitAndNot(x \div 2, m \div 2)

RECURSIVE Pow2(_)
Pow2(n) == IF n = 0 THEN 1 ELSE 2 * Pow2(n - 1)

Shl(a, n) == a * Pow2(n)
Shr(a, n) == a \div Pow2(n)

UChar(v)  == v % 256       \* conversion to unsigned char
UShort(v) == v % 65536     \* conversion to unsigned short

NBBY == 8

---------------------------------------------------------------------------
(* XCreateImage                                                            *)

DefaultBitmapPad == 128

\* #ifdef WORDS_BIGENDIAN: the build's byte order.
WORDS_BIGENDIAN == FALSE

BitsPerPixel(format) == IF format = "ZPixmap" THEN 32 ELSE 1
BitmapUnit(format)   == IF format = "ZPixmap" THEN 32 ELSE 8
BitmapPad(bitmap_pad) == IF bitmap_pad # 0 THEN bitmap_pad ELSE DefaultBitmapPad

\* (width * bits_per_pixel + add) >> 3 in unsigned int arithmetic: width is
\* unsigned int, so the sum is taken modulo 2^32.  The product is formed
\* from the two 16-bit halves of width, the carry out of bit 31 dropped.
StrideBytes(width, bits_per_pixel, add) ==
    LET low  == (width % 65536) * bits_per_pixel + add
        high == ((width \div 65536) * bits_per_pixel + low \div 65536) % 65536
    IN  high * 8192 + (low % 65536) \div 8

\* The row stride computed when the caller passes bytes_per_line = 0,
\* without the alignment mask: a stride that is merely rounded up to bytes.
BytesPerLine_NoMask(width, bits_per_pixel, bitmap_pad) ==
    StrideBytes(width, bits_per_pixel, bitmap_pad - 1)

\* ((width * bits_per_pixel + (bitmap_pad - 1)) >> 3) & ~((bitmap_pad >> 3) - 1)
BytesPerLine(width, bits_per_pixel, bitmap_pad) ==
    BitAndNot(StrideBytes(width, bits_per_pixel, bitmap_pad - 1),
              Shr(bitmap_pad, 3) - 1)

\* The XImage XCreateImage returns.  data is the caller's buffer, stored as
\* given.
XCreateImage(depth, format, offset, data, width, height, bitmap_pad, bytes_per_line) ==
    LET bpp == BitsPerPixel(format)
        pad == BitmapPad(bitmap_pad)
    IN  [ height         |-> height,
          width          |-> width,
          depth          |-> depth,
          xoffset        |-> offset,
          format         |-> format,
          data           |-> data,
          bits_per_pixel |-> bpp,
          bitmap_unit    |-> BitmapUnit(format),
          bitmap_pad     |-> pad,
          bytes_per_line |-> IF bytes_per_line # 0 THEN bytes_per_line
                             ELSE BytesPerLine(width, bpp, pad),
          byte_order       |-> IF WORDS_BIGENDIAN THEN "MSBFirst" ELSE "LSBFirst",
          bitmap_bit_order |-> IF WORDS_BIGENDIAN THEN "MSBFirst" ELSE "LSBFirst",
          red_mask   |-> 16711680,     \* 0x00FF0000
          green_mask |-> 65280,        \* 0x0000FF00
          blue_mask  |-> 255 ]         \* 0x000000FF

\* A pixel buffer of n bytes, every byte equal to fill.
Buffer(n, fill) == [i \in 1..n |-> fill]

Formats      == {"XYBitmap", "XYPixmap", "ZPixmap"}
BitmapPads   == {0, 8, 16, 24, 32}
BytesPerLineArgs == {0, 4, 5, 8}
Depths       == {1, 24}

\* Widths at which width * 32 no longer fits an unsigned int.
WideWidths == { Pow2(27), Pow2(27) + 1 }

\* XCreateImage, then the caller attaching a buffer of
\* bytes_per_line * height bytes (the size the data model prescribes).  The
\* images of a wide width are created with no rows, and so with no bytes.
DoXCreateImage ==
    /\ request < MaxRequest
    /\ ximage = NULL
    /\ \E depth \in Depths, format \in Formats, offset \in 0..MaxOffset,
          width \in (0..MaxWidth) \cup WideWidths, height \in 0..MaxHeight,
          bitmap_pad \in BitmapPads, bytes_per_line \in BytesPerLineArgs :
          /\ (width \in WideWidths => height = 0)
          /\ LET img == XCreateImage(depth, format, offset, <<>>, width, height,
                                  bitmap_pad, bytes_per_line)
             IN  /\ ximage' = [img EXCEPT
                        !.data = Buffer(img.bytes_per_line * height, 0)]
                 /\ createArgs' = [bitmap_pad |-> bitmap_pad,
                                   bytes_per_line |-> bytes_per_line]
    /\ request' = request + 1
    /\ cg' = NULL
    /\ UNCHANGED <<printVars, pixelVars, call, nsVars>>

\* DestroyImage (f.destroy_image): frees the data and the image.
DoDestroyImage ==
    /\ ximage # NULL
    /\ ximage' = NULL
    /\ createArgs' = NULL
    /\ cg' = NULL
    /\ UNCHANGED <<printVars, request, pixelVars, call, nsVars>>

---------------------------------------------------------------------------
(* TkMacOSXCreateCGImageWithXImage                                         *)

\* The byte offsets of image->data that a copy of len bytes starting at
\* image->data + image->xoffset reads.
CopyReads(image, len) == { image.xoffset + i : i \in 0..(len - 1) }

\* What TkMacOSXCreateCGImageWithXImage allocated and that is still
\* allocated once the caller has released the image it got (if any): the
\* copy of the pixel data (freed by ReleaseData when its provider is freed,
\* and by nothing when there is no provider), the references to the data
\* provider and to the colour space that CFRelease did not give back.  An
\* image holds a reference of its own to its provider and colour space and
\* drops it when it is freed.
Allocations(image, providerOK, imageOK) ==
    IF image.bits_per_pixel = 1 THEN
        \* no CFRelease(provider) in this branch
        [ data |-> 1, provider |-> IF providerOK THEN 1 ELSE 0,
          colorspace |-> 0 ]
    ELSE IF image.format = "ZPixmap" /\ image.bits_per_pixel = 32 THEN
        IF image.width = 0 /\ image.height = 0 THEN
            \* return NULL after CGColorSpaceCreateDeviceRGB
            [ data |-> 0, provider |-> 0, colorspace |-> 1 ]
        ELSE
            [ data |-> IF providerOK THEN 0 ELSE 1, provider |-> 0,
              colorspace |-> 0 ]
    ELSE [ data |-> 0, provider |-> 0, colorspace |-> 0 ]

\* providerOK / imageOK: whether CGDataProviderCreateWithData and
\* CGImageMaskCreate / CGImageCreate return an object.
TkMacOSXCreateCGImageWithXImage(image, alphaInfo, providerOK, imageOK) ==
    LET len == image.bytes_per_line * image.height
    IN  IF image.bits_per_pixel = 1 THEN
            [ kind     |-> "mask",
              copy     |-> IF image.bitmap_bit_order # "MSBFirst"
                           THEN "bitreverse" ELSE "memcpy",
              copied   |-> len,
              reads    |-> CopyReads(image, len),
              bytesPerRow |-> image.bytes_per_line,
              bitmapInfo  |-> <<>>,
              img      |-> providerOK /\ imageOK,
              leaked   |-> Allocations(image, providerOK, imageOK) ]
        ELSE IF image.format = "ZPixmap" /\ image.bits_per_pixel = 32 THEN
            IF image.width = 0 /\ image.height = 0 THEN
                [ kind |-> "rgb", copy |-> "none", copied |-> 0, reads |-> {},
                  bytesPerRow |-> image.bytes_per_line,
                  bitmapInfo |-> <<>>, img |-> FALSE,
              leaked |-> Allocations(image, providerOK, imageOK) ]
            ELSE
                [ kind     |-> "rgb",
                  copy     |-> "memcpy",
                  copied   |-> len,
                  reads    |-> CopyReads(image, len),
                  bytesPerRow |-> image.bytes_per_line,
                  bitmapInfo  |-> << IF image.byte_order = "MSBFirst"
                                     THEN "kCGBitmapByteOrder32Little"
                                     ELSE "kCGBitmapByteOrder32Big",
                                     alphaInfo >>,
                  img      |-> providerOK /\ imageOK,
              leaked   |-> Allocations(image, providerOK, imageOK) ]
        ELSE
            [ kind |-> "unsupported", copy |-> "none", copied |-> 0,
              reads |-> {}, bytesPerRow |-> image.bytes_per_line,
              bitmapInfo |-> <<>>, img |-> FALSE,
              leaked |-> Allocations(image, providerOK, imageOK) ]

AlphaInfos == {"PIXEL_RGBX", "PIXEL_RGBA"}

DoCreateCGImage ==
    /\ ximage # NULL
    /\ \E alphaInfo \in AlphaInfos, providerOK \in BOOLEAN, imageOK \in BOOLEAN :
          cg' = TkMacOSXCreateCGImageWithXImage(ximage, alphaInfo,
                                                providerOK, imageOK)
    /\ UNCHANGED <<printVars, request, ximage, createArgs, pixelVars, call, nsVars>>

---------------------------------------------------------------------------
(* ImageGetPixel / ImagePutPixel                                           *)
(* image->data is a sequence of bytes; the byte at offset o is data[o+1].  *)

\* Reads and writes of unsigned int / unsigned short through a byte
\* pointer, in the byte order of the build.
Load16(data, off) ==
    IF WORDS_BIGENDIAN THEN data[off + 1] * 256 + data[off + 2]
    ELSE data[off + 1] + data[off + 2] * 256

\* An unsigned int read through a byte pointer, as its four bytes from the
\* least to the most significant (a 32-bit value with the top bit set is
\* outside the integers TLC computes with).
Load32(data, off) ==
    IF WORDS_BIGENDIAN
    THEN << data[off + 4], data[off + 3], data[off + 2], data[off + 1] >>
    ELSE << data[off + 1], data[off + 2], data[off + 3], data[off + 4] >>

\* (word >> n) & 0xff of a word read by Load32, for n in {0, 8, 16, 24}.
ShrByte(word, n) == word[(n \div 8) + 1]

Store16(data, off, v) ==
    IF WORDS_BIGENDIAN
    THEN [data EXCEPT ![off + 1] = Shr(v, 8) % 256, ![off + 2] = v % 256]
    ELSE [data EXCEPT ![off + 1] = v % 256, ![off + 2] = Shr(v, 8) % 256]

Store32(data, off, v) ==
    IF WORDS_BIGENDIAN
    THEN [data EXCEPT ![off + 1] = Shr(v, 24) % 256,
                      ![off + 2] = Shr(v, 16) % 256,
                      ![off + 3] = Shr(v, 8) % 256,
                      ![off + 4] = v % 256]
    ELSE [data EXCEPT ![off + 1] = v % 256,
                      ![off + 2] = Shr(v, 8) % 256,
                      ![off + 3] = Shr(v, 16) % 256,
                      ![off + 4] = Shr(v, 24) % 256]

\* data + (y * bytes_per_line) + (((xoffset + x) * bits_per_pixel) / NBBY)
PixelOffset(image, x, y) ==
    y * image.bytes_per_line
        + ((image.xoffset + x) * image.bits_per_pixel) \div NBBY

\* r |= r >> 2 | r >> 4 | r >> 6, on an unsigned char
Replicate2(c) == UChar(BitOr(c, BitOr(Shr(c, 2), BitOr(Shr(c, 4), Shr(c, 6)))))

\* The r, g, b that ImageGetPixel hands to TkMacOSXRGBPixel.
ImageGetPixel(image, x, y) ==
    LET off == PixelOffset(image, x, y)
        d   == image.data
    IN  CASE image.bits_per_pixel = 32 ->
                LET v == Load32(d, off)
                IN  << ShrByte(v, 16), ShrByte(v, 8), ShrByte(v, 0) >>
          [] image.bits_per_pixel = 16 ->
                LET v == Load16(d, off)
                IN  << UChar(BitAnd(Shr(v, 7), 248)),
                       UChar(BitAnd(Shr(v, 2), 248)),
                       UChar(BitAnd(Shl(v, 3), 248)) >>
          [] image.bits_per_pixel = 8 ->
                LET v == d[off + 1]
                IN  << Replicate2(UChar(BitAnd(Shl(v, 2), 192))),
                       Replicate2(UChar(BitAnd(Shl(v, 4), 192))),
                       Replicate2(UChar(BitAnd(Shl(v, 6), 192))) >>
          [] image.bits_per_pixel = 4 ->
                LET c == UChar(IF x % 2 # 0 THEN d[off + 1]
                               ELSE Shr(d[off + 1], 4))
                IN  << IF BitAnd(c, 4) # 0 THEN 255 ELSE 0,
                       IF BitAnd(c, 2) # 0 THEN 255 ELSE 0,
                       IF BitAnd(c, 1) # 0 THEN 255 ELSE 0 >>
          [] image.bits_per_pixel = 1 ->
                LET v == IF BitAnd(d[off + 1], Shr(128, x % 8)) # 0
                         THEN 255 ELSE 0
                IN  << v, v, v >>
          [] OTHER -> << 0, 0, 0 >>

\* The 4-bit case of ImagePutPixel with the nibbles exchanged.
PutNibble_Swapped(byte, x, c) ==
    IF x % 2 = 0
    THEN BitOr(BitAnd(byte, 240), BitAnd(c, 15))
    ELSE BitOr(BitAnd(byte, 15), BitAnd(Shl(c, 4), 240))

\* (x % 2) ? ((*dstPtr & 0xf0) | (c & 0x0f))
\*         : ((*dstPtr & 0x0f) | ((c << 4) & 0xf0))
PutNibble(byte, x, c) ==
    IF x % 2 # 0
    THEN BitOr(BitAnd(byte, 240), BitAnd(c, 15))
    ELSE BitOr(BitAnd(byte, 15), BitAnd(Shl(c, 4), 240))

\* ((r & 0xf8) << 7) | ((g & 0xf8) << 2) | ((b & 0xf8) >> 3)
Pack16(r, g, b) ==
    UShort(BitOr(Shl(BitAnd(r, 248), 7),
                 BitOr(Shl(BitAnd(g, 248), 2), Shr(BitAnd(b, 248), 3))))

\* ((r & 0xc0) >> 2) | ((g & 0xc0) >> 4) | ((b & 0xc0) >> 6)
Pack8(r, g, b) ==
    UChar(BitOr(Shr(BitAnd(r, 192), 2),
                BitOr(Shr(BitAnd(g, 192), 4), Shr(BitAnd(b, 192), 6))))

\* ((r & 0x80) >> 5) | ((g & 0x80) >> 6) | ((b & 0x80) >> 7)
Pack4(r, g, b) ==
    UChar(BitOr(Shr(BitAnd(r, 128), 5),
                BitOr(Shr(BitAnd(g, 128), 6), Shr(BitAnd(b, 128), 7))))

\* image->data after ImagePutPixel(image, x, y, pixel).
ImagePutPixel(image, x, y, pixel) ==
    LET off == PixelOffset(image, x, y)
        d   == image.data
        r   == UChar(BitAnd(Shr(BitAnd(pixel, image.red_mask), 16), 255))
        g   == UChar(BitAnd(Shr(BitAnd(pixel, image.green_mask), 8), 255))
        b   == UChar(BitAnd(BitAnd(pixel, image.blue_mask), 255))
    IN  CASE image.bits_per_pixel = 32 -> Store32(d, off, pixel)
          [] image.bits_per_pixel = 16 -> Store16(d, off, Pack16(r, g, b))
          [] image.bits_per_pixel = 8 ->
                [d EXCEPT ![off + 1] = Pack8(r, g, b)]
          [] image.bits_per_pixel = 4 ->
                [d EXCEPT ![off + 1] = UChar(PutNibble(@, x, Pack4(r, g, b)))]
          [] image.bits_per_pixel = 1 ->
                [d EXCEPT ![off + 1] =
                    IF BitAnd(BitOr(r, BitOr(g, b)), 128) # 0
                    THEN UChar(BitOr(@, Shr(128, x % 8)))
                    ELSE UChar(BitAndNot(@, Shr(128, x % 8)))]
          [] OTHER -> d

\* A pixel value with the given top byte and 8-bit red, green and blue.
Pixel(top, r, g, b) == ((top * 256 + r) * 256 + g) * 256 + b

PixelSamples ==
    { Pixel(0, 0, 0, 0), Pixel(0, 255, 255, 255), Pixel(0, 127, 63, 200),
      Pixel(1, 200, 135, 7) }

PixelDepths == {1, 4, 8, 16, 32}
PixelImageSizes == { <<2, 1>>, <<3, 2>> }
PixelFills == {0, 255}

\* An XImage of the given size and depth, with xoffset 0, the stride
\* XCreateImage computes for that depth, and a buffer of stride * height
\* bytes.
PixelImage(width, height, d, fill) ==
    LET img == XCreateImage(d, "ZPixmap", 0, <<>>, width, height, 0, 0)
        bpl == BytesPerLine(width, d, img.bitmap_pad)
    IN  [img EXCEPT !.bits_per_pixel = d,
                    !.bytes_per_line = bpl,
                    !.data = Buffer(bpl * height, fill)]

DoPutPixel ==
    /\ ximage # NULL
    /\ nputs < MaxPuts
    /\ \E x \in 0..(ximage.width - 1), y \in 0..(ximage.height - 1),
          pixel \in PixelSamples :
          /\ ximage' = [ximage EXCEPT !.data = ImagePutPixel(ximage, x, y, pixel)]
          /\ lastPut' = [x |-> x, y |-> y, pixel |-> pixel]
    /\ nputs' = nputs + 1
    /\ lastGet' = NULL
    /\ UNCHANGED <<printVars, request, createArgs, cg, call, nsVars>>

DoGetPixel ==
    /\ ximage # NULL
    /\ \E x \in 0..(ximage.width - 1), y \in 0..(ximage.height - 1) :
          LET rgb == ImageGetPixel(ximage, x, y)
          IN  lastGet' = [x |-> x, y |-> y,
                          r |-> rgb[1], g |-> rgb[2], b |-> rgb[3]]
    /\ UNCHANGED <<printVars, request, ximage, createArgs, cg, lastPut, nputs, call,
                   nsVars>>

InitPixel ==
    /\ request = 0
    /\ \E size \in PixelImageSizes, d \in PixelDepths, fill \in PixelFills :
          ximage = PixelImage(size[1], size[2], d, fill)
    /\ createArgs = NULL
    /\ cg = NULL
    /\ lastPut = NULL
    /\ lastGet = NULL
    /\ nputs = 0
    /\ call = NULL
    /\ master = NULL
    /\ instances = {}
    /\ nextImg = 1
    /\ lastCfg = NULL
    /\ lastCmd = NULL
    /\ lastDraw = NULL
    /\ refs = <<>>
    /\ urlFile = NULL
    /\ retained = 0
    /\ print = NULL

NextPixel == DoPutPixel \/ DoGetPixel

SpecPixel == InitPixel /\ [][NextPixel]_vars

\* The 8-bit channels of a pixel value.
Red(pixel)   == (pixel \div 65536) % 256
Green(pixel) == (pixel \div 256) % 256
Blue(pixel)  == pixel % 256

\* A channel quantised to depth d, each channel on its own.
Quantised(d, c) ==
    CASE d = 32 -> c
      [] d = 16 -> c - (c % 8)
      [] d = 8  -> (c \div 64) * 85
      [] d = 4  -> IF c >= 128 THEN 255 ELSE 0

\* C3: with xoffset 0 and bits_per_pixel d in {1,4,8,16,32}, get_pixel(x,y)
\* right after put_pixel(x,y,p) yields the R,G,B of p quantised to depth d:
\* unchanged for 32, the top 5 bits for 16, the top 2 bits replicated for 8,
\* 0xff or 0 by the top bit for 4, and for 1 all three 0xff iff some
\* channel's top bit is set.
C3_PutGetQuantises ==
    ( /\ lastGet # NULL
      /\ lastPut # NULL
      /\ lastGet.x = lastPut.x
      /\ lastGet.y = lastPut.y
      /\ ximage.xoffset = 0 )
    => LET p == lastPut.pixel
           d == ximage.bits_per_pixel
           any == Red(p) >= 128 \/ Green(p) >= 128 \/ Blue(p) >= 128
       IN  IF d = 1
           THEN /\ lastGet.r = (IF any THEN 255 ELSE 0)
                /\ lastGet.g = lastGet.r
                /\ lastGet.b = lastGet.r
           ELSE /\ lastGet.r = Quantised(d, Red(p))
                /\ lastGet.g = Quantised(d, Green(p))
                /\ lastGet.b = Quantised(d, Blue(p))

\* A 4-bpp image whose odd pixel of the second row was put and read back.
C3_Witness ==
    /\ lastGet # NULL
    /\ lastPut # NULL
    /\ lastGet.x = lastPut.x
    /\ lastGet.y = lastPut.y
    /\ ximage.bits_per_pixel = 4
    /\ lastPut.x = 1
    /\ lastPut.y = 1
    /\ lastPut.pixel = Pixel(0, 127, 63, 200)
    /\ lastGet.b = 255
    /\ lastGet.r = 0

---------------------------------------------------------------------------
(* Native images.  A call's CGImages are kept as a sequence of release     *)
(* counts: image i was created i-th during the call and has been released  *)
(* images[i] times.  Image 0 is the NULL CGImageRef.                       *)

\* A native creation function: a new image when ok, NULL otherwise.
NewImage(images, ok) ==
    IF ok THEN [images |-> Append(images, 0), img |-> Len(images) + 1]
    ELSE [images |-> images, img |-> 0]

\* CFRelease / CGImageRelease of img (CGImageRelease ignores NULL; the code
\* never passes NULL to CFRelease).
Release(images, img) ==
    IF img = 0 THEN images ELSE [images EXCEPT ![img] = @ + 1]

\* CreateCGImageFromPixmap: img = context ? CGBitmapContextCreateImage : NULL
CreateCGImageFromPixmap(images, pixmap, ok) ==
    IF pixmap.context THEN NewImage(images, ok)
    ELSE [images |-> images, img |-> 0]

\* CreateCGImageFromDrawableRect: the image of a rectangle of a pixmap or
\* a window; a pixmap with a context has its image created twice.
CreateCGImageFromDrawableRect(images, drawable, ok) ==
    IF ~drawable.isPixmap /\ ~drawable.view
    THEN [images |-> images, img |-> 0]
    ELSE
        LET first  == IF drawable.isPixmap /\ drawable.context
                      THEN NewImage(images, ok.first)
                      ELSE [images |-> images, img |-> 0]
            cg_context == IF drawable.isPixmap THEN drawable.context
                          ELSE ok.context
            \* if (cg_context) cg_image = CGBitmapContextCreateImage(...)
            second == IF cg_context THEN NewImage(first.images, ok.image)
                      ELSE first
            \* if (cg_image) { result = ...InRect; CGImageRelease(cg_image) }
            rect   == IF second.img # 0 THEN NewImage(second.images, ok.rect)
                      ELSE [images |-> second.images, img |-> 0]
        IN  [images |-> Release(rect.images, second.img), img |-> rect.img]

\* A source drawable: a pixmap, with or without a bitmap context
\* (TkMacOSXGetCGContextForDrawable), or a window, with or without an NSView
\* and an NSWindow.
Drawables ==
    { [isPixmap |-> TRUE, context |-> c, view |-> FALSE, window |-> FALSE] :
          c \in BOOLEAN }
    \cup { [isPixmap |-> FALSE, context |-> FALSE, view |-> v, window |-> w] :
          v \in BOOLEAN, w \in BOOLEAN }

\* A destination drawable: whether it is a pixmap, and whether the drawing
\* context set up for it has a CGContext (dc.context).
Destinations == [isPixmap : BOOLEAN, context : BOOLEAN]

NativeOutcomes ==
    [first : BOOLEAN, context : BOOLEAN, image : BOOLEAN, rect : BOOLEAN]

\* Whether the native calls of the clip-mask branch of XCopyPlane return an
\* object: CGBitmapContextCreateImage for the mask, and the two
\* CGImageCreateWithImageInRect.
ClipOutcomes == [mask : BOOLEAN, submask : BOOLEAN, subimage : BOOLEAN]

AllCreated == [first |-> TRUE, context |-> TRUE, image |-> TRUE, rect |-> TRUE]
AllClipped == [mask |-> TRUE, submask |-> TRUE, subimage |-> TRUE]

\* The outcomes of the native calls of an XCopyPlane: those of the pixmap
\* branch vary while those of the window branch succeed, or the reverse.
CopyPlaneOutcomes ==
    { <<[AllCreated EXCEPT !.image = i], okClip>> :
          i \in BOOLEAN, okClip \in ClipOutcomes }
    \cup { <<ok, AllClipped>> : ok \in NativeOutcomes }

---------------------------------------------------------------------------
(* XPutImage / TkpPutRGBAImage                                             *)

\* TkMacOSXPutImage with the result of the conversion ignored.
TkMacOSXPutImage_IgnoreImage(pixelFormat, dst, setupOK, image, providerOK, imageOK) ==
    [ result |-> IF setupOK /\ dst.context THEN "Success" ELSE "BadDrawable",
      setups |-> IF setupOK THEN 1 ELSE 0,
      restores |-> IF setupOK THEN 1 ELSE 0,
      images |-> <<>>, blend |-> FALSE,
      drew |-> setupOK /\ dst.context, called |-> TRUE ]

\* TkMacOSXPutImage.  setupOK: TkMacOSXSetupDrawingContext succeeds;
\* dst.context: dc.context is not NULL.
TkMacOSXPutImage(pixelFormat, dst, setupOK, image, providerOK, imageOK) ==
    IF ~setupOK THEN
        [ result |-> "BadDrawable", setups |-> 0, restores |-> 0,
          images |-> <<>>, blend |-> FALSE, drew |-> FALSE, called |-> TRUE ]
    ELSE IF dst.context THEN
        LET conv == TkMacOSXCreateCGImageWithXImage(image, pixelFormat,
                                                    providerOK, imageOK)
            made == NewImage(<<>>, conv.img)
        IN  [ result |-> IF made.img # 0 THEN "Success" ELSE "BadDrawable",
              setups |-> 1, restores |-> 1,
              images |-> Release(made.images, made.img),
              blend  |-> ~dst.isPixmap,
              drew   |-> made.img # 0, called |-> TRUE ]
    ELSE
        [ result |-> "BadDrawable", setups |-> 1, restores |-> 1,
          images |-> <<>>, blend |-> FALSE, drew |-> FALSE, called |-> TRUE ]

XPutImage(dst, setupOK, image, providerOK, imageOK) ==
    TkMacOSXPutImage("PIXEL_RGBX", dst, setupOK, image, providerOK, imageOK)

TkpPutRGBAImage(dst, setupOK, image, providerOK, imageOK) ==
    TkMacOSXPutImage("PIXEL_RGBA", dst, setupOK, image, providerOK, imageOK)

DrawSizes == 0..MaxDraw

\* The images handed to the drawing functions: those XCreateImage makes,
\* and images whose depth the client set afterwards.
DrawImages ==
    { XCreateImage(24, format, 0, <<>>, w, h, 0, 0) :
          format \in Formats, w \in DrawSizes, h \in DrawSizes }
    \cup { PixelImage(w, h, d, 0) :
          w \in DrawSizes, h \in DrawSizes, d \in PixelDepths }
    \cup { [XCreateImage(24, "XYPixmap", 0, <<>>, w, h, 0, 0)
               EXCEPT !.bits_per_pixel = 32] : w \in DrawSizes, h \in DrawSizes }

DoPutImage ==
    /\ call = NULL
    /\ request < MaxRequest
    /\ \E fn \in {"XPutImage", "TkpPutRGBAImage"}, dst \in Destinations,
          setupOK \in BOOLEAN, image \in DrawImages,
          providerOK \in BOOLEAN, imageOK \in BOOLEAN :
          LET x == XPutImage(dst, setupOK, image, providerOK, imageOK)
              a == TkpPutRGBAImage(dst, setupOK, image, providerOK, imageOK)
              out == IF fn = "XPutImage" THEN x ELSE a
              other == IF fn = "XPutImage" THEN a ELSE x
          IN  call' = [ fn |-> fn,
                        args |-> [dst |-> dst, setupOK |-> setupOK,
                                  image |-> image, providerOK |-> providerOK,
                                  imageOK |-> imageOK],
                        out |-> out,
                        twin |-> other.result ]
    /\ request' = request + 1
    /\ UNCHANGED <<printVars, imageVars, pixelVars, nsVars>>

---------------------------------------------------------------------------
(* XCopyArea / XCopyPlane                                                  *)

\* XCopyArea.  requests counts the display->request++ executed.
XCopyArea(src, dst, setupOK, width, height, ok) ==
    IF width = 0 \/ height = 0 THEN
        [ result |-> "BadDrawable", requests |-> 1, setups |-> 0,
          restores |-> 0, images |-> <<>>, drew |-> FALSE ]
    ELSE IF ~setupOK THEN
        [ result |-> "BadDrawable", requests |-> 1, setups |-> 0,
          restores |-> 0, images |-> <<>>, drew |-> FALSE ]
    ELSE IF ~dst.context THEN
        [ result |-> "BadDrawable", requests |-> 1, setups |-> 1,
          restores |-> 0, images |-> <<>>, drew |-> FALSE ]
    ELSE
        LET made == IF src.isPixmap
                    THEN CreateCGImageFromPixmap(<<>>, src, ok.image)
                    ELSE IF src.window
                    THEN CreateCGImageFromDrawableRect(<<>>, src, ok)
                    ELSE [images |-> <<>>, img |-> 0]
        IN  [ result |-> "Success", requests |-> 1, setups |-> 1,
              restores |-> 1,
              images |-> Release(made.images, made.img),
              drew |-> made.img # 0 ]

\* The clip mask of the GC: none, a pixmap (with or without a context), or
\* a clip region.
ClipMasks ==
    { [type |-> "none", context |-> FALSE],
      [type |-> "TKP_CLIP_PIXMAP", context |-> TRUE],
      [type |-> "TKP_CLIP_PIXMAP", context |-> FALSE],
      [type |-> "TKP_CLIP_REGION", context |-> FALSE] }

\* XCopyPlane.  A plane other than 1 ends in Tcl_Panic.
XCopyPlane(src, dst, setupOK, width, height, plane, clip, ok, okClip) ==
    IF width = 0 \/ height = 0 THEN
        [ result |-> "BadDrawable", requests |-> 1, setups |-> 0,
          restores |-> 0, images |-> <<>>, drew |-> FALSE ]
    ELSE IF plane # 1 THEN
        [ result |-> "Tcl_Panic", requests |-> 1, setups |-> 0,
          restores |-> 0, images |-> <<>>, drew |-> FALSE ]
    ELSE IF src.isPixmap THEN
        IF ~setupOK THEN
            [ result |-> "BadDrawable", requests |-> 1, setups |-> 0,
              restores |-> 0, images |-> <<>>, drew |-> FALSE ]
        ELSE IF ~dst.context THEN
            [ result |-> "Success", requests |-> 1, setups |-> 1,
              restores |-> 1, images |-> <<>>, drew |-> FALSE ]
        ELSE
            LET made == CreateCGImageFromPixmap(<<>>, src, ok.image)
            IN  IF made.img = 0 THEN
                    [ result |-> "Success", requests |-> 1, setups |-> 1,
                      restores |-> 1, images |-> made.images, drew |-> FALSE ]
                ELSE IF clip.type = "TKP_CLIP_PIXMAP" THEN
                    LET mask     == CreateCGImageFromPixmap(made.images, clip,
                                                            okClip.mask)
                        submask  == NewImage(mask.images, okClip.submask)
                        subimage == NewImage(submask.images, okClip.subimage)
                    IN  [ result |-> "Success", requests |-> 1, setups |-> 1,
                          restores |-> 1,
                          images |-> Release(Release(Release(Release(
                                        subimage.images, made.img), mask.img),
                                        submask.img), subimage.img),
                          drew |-> TRUE ]
                ELSE
                    [ result |-> "Success", requests |-> 1, setups |-> 1,
                      restores |-> 1,
                      images |-> Release(made.images, made.img),
                      drew |-> TRUE ]
    ELSE
        LET area == XCopyArea(src, dst, setupOK, width, height, ok)
        IN  [area EXCEPT !.requests = @ + 1]

DoCopyArea ==
    /\ call = NULL
    /\ request < MaxRequest
    /\ \E src \in Drawables, dst \in Destinations, setupOK \in BOOLEAN,
          width \in DrawSizes, height \in DrawSizes, ok \in NativeOutcomes :
          LET out == XCopyArea(src, dst, setupOK, width, height, ok)
          IN  /\ call' = [ fn |-> "XCopyArea",
                           args |-> [src |-> src, dst |-> dst,
                                     setupOK |-> setupOK, width |-> width,
                                     height |-> height],
                           out |-> out ]
              /\ request' = request + out.requests
    /\ UNCHANGED <<printVars, imageVars, pixelVars, nsVars>>

DoCopyPlane ==
    /\ call = NULL
    /\ request < MaxRequest
    /\ \E src \in Drawables, dst \in Destinations, setupOK \in BOOLEAN,
          width \in DrawSizes, height \in DrawSizes, plane \in {1, 2},
          clip \in ClipMasks, oks \in CopyPlaneOutcomes :
          LET out == XCopyPlane(src, dst, setupOK, width, height, plane,
                                clip, oks[1], oks[2])
          IN  /\ call' = [ fn |-> "XCopyPlane",
                           args |-> [src |-> src, dst |-> dst,
                                     setupOK |-> setupOK, width |-> width,
                                     height |-> height, plane |-> plane,
                                     clip |-> clip],
                           out |-> out ]
              /\ request' = request + out.requests
    /\ UNCHANGED <<printVars, imageVars, pixelVars, nsVars>>

---------------------------------------------------------------------------
(* XGetImage                                                               *)

\* struct pixel_fmt bgra = {2, 1, 0, 3}, abgr = {3, 2, 1, 0}
bgra == [r |-> 2, g |-> 1, b |-> 0, a |-> 3]
abgr == [r |-> 3, g |-> 2, b |-> 1, a |-> 0]

\* The bytes of a captured bitmap of the given format, each byte named by
\* the channel it holds; the bytes of a row past 4 * width are "pad".
BitmapData(bitmap_fmt, bytes_per_row, width, size) ==
    LET order == IF bitmap_fmt = 0 THEN <<"B", "G", "R", "A">>
                 ELSE <<"A", "B", "G", "R">>
    IN  [i \in 1..size |->
            LET k == (i - 1) % bytes_per_row
            IN  IF k < 4 * width THEN order[(k % 4) + 1] ELSE "pad"]

\* The in-place conversion of every pixel of every row to R, G, B, A.
Swizzle(bitmap, pixel, bytes_per_row, width, height) ==
    [i \in 1..Len(bitmap) |->
        LET row == (i - 1) \div bytes_per_row
            k   == (i - 1) % bytes_per_row
            m   == (i - 1) - (k % 4)
        IN  IF row < height /\ k < 4 * width
            THEN CASE k % 4 = 0 -> bitmap[m + pixel.r + 1]
                   [] k % 4 = 1 -> bitmap[m + pixel.g + 1]
                   [] k % 4 = 2 -> bitmap[m + pixel.b + 1]
                   [] k % 4 = 3 -> bitmap[m + pixel.a + 1]
            ELSE bitmap[i]]

\* XGetImage with the stride left for XCreateImage to compute.
XGetImage_OwnStride(drawable, width, height, format, bitmap, ok) ==
    IF format # "ZPixmap" \/ width = 0 \/ height = 0 THEN
        [ ximage |-> NULL, requests |-> 0, images |-> <<>>,
          captured |-> FALSE ]
    ELSE
        LET cap == CreateCGImageFromDrawableRect(<<>>, drawable, ok)
        IN  IF cap.img = 0 \/ (bitmap.fmt # 0 /\ bitmap.fmt # 1)
               \/ bitmap.samplesPerPixel # 4 \/ bitmap.isPlanar
               \/ bitmap.bytes_per_row < 4 * width
               \/ bitmap.size # bitmap.bytes_per_row * height
            THEN [ ximage |-> NULL, requests |-> 0,
                   images |-> Release(cap.images, cap.img),
                   captured |-> cap.img # 0 ]
            ELSE [ ximage |-> XCreateImage(32, format, 0, <<>>, width,
                                           height, 0, 0),
                   requests |-> 1,
                   images |-> Release(cap.images, cap.img),
                   captured |-> TRUE ]

\* XGetImage.  bitmap: what the NSBitmapImageRep made of the captured
\* CGImage reports (bitmapFormat, samplesPerPixel, isPlanar, bytesPerRow,
\* bytesPerPlane).  captured: CreateCGImageFromDrawableRect returned an
\* image.
XGetImage(drawable, width, height, format, bitmap, ok) ==
    IF format = "ZPixmap" THEN
        IF width = 0 \/ height = 0 THEN
            [ ximage |-> NULL, requests |-> 0, images |-> <<>>,
              captured |-> FALSE ]
        ELSE
            LET cap == CreateCGImageFromDrawableRect(<<>>, drawable, ok)
            IN  IF cap.img = 0 THEN
                    [ ximage |-> NULL, requests |-> 0, images |-> cap.images,
                      captured |-> FALSE ]
                ELSE IF \/ (bitmap.fmt # 0 /\ bitmap.fmt # 1)
                        \/ bitmap.samplesPerPixel # 4
                        \/ bitmap.isPlanar
                        \/ bitmap.bytes_per_row < 4 * width
                        \/ bitmap.size # bitmap.bytes_per_row * height
                THEN
                    [ ximage |-> NULL, requests |-> 0,
                      images |-> Release(cap.images, cap.img),
                      captured |-> TRUE ]
                ELSE
                    LET data == Swizzle(
                                  BitmapData(bitmap.fmt, bitmap.bytes_per_row,
                                             width, bitmap.size),
                                  IF bitmap.fmt = 0 THEN bgra ELSE abgr,
                                  bitmap.bytes_per_row, width, height)
                    IN  [ ximage |-> XCreateImage(32, format, 0, data, width,
                                                  height, 0,
                                                  bitmap.bytes_per_row),
                          requests |-> 1,
                          images |-> Release(cap.images, cap.img),
                          captured |-> TRUE ]
    ELSE
        [ ximage |-> NULL, requests |-> 0, images |-> <<>>,
          captured |-> FALSE ]

\* What a captured bitmap of a width x height rectangle may report: a
\* bitmap XGetImage accepts (either format, rows padded or not), or one with
\* a single property it rejects.
Bitmaps(width, height) ==
    LET good == { [fmt |-> f, samplesPerPixel |-> 4, isPlanar |-> FALSE,
                   bytes_per_row |-> bpr, size |-> bpr * height] :
                      f \in {0, 1}, bpr \in {4 * width, 4 * width + 4} }
        plain == [fmt |-> 0, samplesPerPixel |-> 4, isPlanar |-> FALSE,
                  bytes_per_row |-> 4 * width, size |-> 4 * width * height]
    IN  good \cup
        { [plain EXCEPT !.fmt = 2],
          [plain EXCEPT !.samplesPerPixel = 3],
          [plain EXCEPT !.isPlanar = TRUE],
          [plain EXCEPT !.size = @ + 1] }
        \cup (IF width > 0
              THEN { [plain EXCEPT !.bytes_per_row = 4 * width - 1,
                                   !.size = (4 * width - 1) * height] }
              ELSE {})

DoGetImage ==
    /\ call = NULL
    /\ request < MaxRequest
    /\ \E drawable \in Drawables, width \in DrawSizes, height \in DrawSizes,
          format \in Formats, ok \in NativeOutcomes :
          \E bitmap \in Bitmaps(width, height) :
              LET out == XGetImage(drawable, width, height, format, bitmap, ok)
              IN  /\ call' = [ fn |-> "XGetImage",
                               args |-> [drawable |-> drawable,
                                         width |-> width, height |-> height,
                                         format |-> format, bitmap |-> bitmap],
                               out |-> out ]
                  /\ request' = request + out.requests
    /\ UNCHANGED <<printVars, imageVars, pixelVars, nsVars>>

\* The caller takes the result; the call is over.
DoReturn ==
    /\ call # NULL
    /\ call' = NULL
    /\ UNCHANGED <<printVars, request, imageVars, pixelVars, nsVars>>

NextDraw == DoPutImage \/ DoCopyArea \/ DoCopyPlane \/ DoGetImage \/ DoReturn

---------------------------------------------------------------------------
(* The nsimage image type                                                  *)
(* A C string is a record: a null pointer, or the sequence of its          *)
(* characters.  An NSImage is a record [id, look]; id 0 is nil.            *)

NullStr == [null |-> TRUE, s |-> <<>>]
Str(chars) == [null |-> FALSE, s |-> chars]

\* DEF_SOURCE "" and DEF_AS "name"
DEF_SOURCE == Str(<<>>)
DEF_AS     == Str(<<"n", "a", "m", "e">>)

\* static const char *sourceInterpretations[]
sourceInterpretations ==
    << <<"n", "a", "m", "e">>,
       <<"f", "i", "l", "e">>,
       <<"p", "a", "t", "h">>,
       <<"f", "i", "l", "e", "t", "y", "p", "e">> >>

\* enum {NAME_SOURCE, FILE_SOURCE, PATH_SOURCE, FILETYPE_SOURCE}, from 1.
Loaders ==
    << "imageNamed", "initWithContentsOfFile", "iconForFile",
       "iconForFileType" >>

IsPrefix(p, str) == Len(p) <= Len(str) /\ SubSeq(str, 1, Len(p)) = p

\* Tcl_GetIndexFromObj(interp, objPtr, table, "option", 0, &index): the
\* index of the entry equal to key; failing that, with flags 0, of the only
\* entry that a non-empty key abbreviates; 0 for TCL_ERROR.
Tcl_GetIndexFromObj(key, table) ==
    LET exact  == { i \in 1..Len(table) : table[i] = key }
        abbrev == { i \in 1..Len(table) : IsPrefix(key, table[i]) }
    IN  IF exact # {} THEN CHOOSE i \in exact : TRUE
        ELSE IF key = <<>> \/ Cardinality(abbrev) # 1 THEN 0
        ELSE CHOOSE i \in abbrev : TRUE

\* The interpretation of -as with an unrecognised value taken for "name".
SourceInterpretation_DefaultName(as) ==
    LET i == Tcl_GetIndexFromObj(as.s, sourceInterpretations)
    IN  IF i = 0 THEN 1 ELSE i

\* The index ConfigureMaster gets for the value of -as; 0 when
\* Tcl_GetIndexFromObj returns TCL_ERROR.
SourceInterpretation(as) ==
    Tcl_GetIndexFromObj(as.s, sourceInterpretations)

\* masterPtr->source == NULL || masterPtr->source[0] == '0'
\* (the byte at the end of a string, source[0] of "", is '\0').
SourceMissing(source) ==
    source.null \/ (source.s # <<>> /\ source.s[1] = "0")

NoImage == [id |-> 0, look |-> "nil"]

\* The master after TkNSImageCreate has filled it in and Tk_InitOptions
\* has set the defaults.
NewMaster ==
    [ source |-> DEF_SOURCE, as |-> DEF_AS, width |-> 32, height |-> 32,
      alpha |-> "1.0", pressed |-> FALSE, flags |-> 0,
      image |-> NoImage, darkModeImage |-> NoImage ]

\* An objv of option-value pairs: empty, one pair, the two pairs
\* "-alpha 0.5 -pressed 1", or a pair Tk_SetOptions rejects (an unknown
\* option, a value of the wrong type, a missing value).
Sources  == { <<>>, <<"a">>, <<"0", "a">> }
AsValues ==
    { <<"n", "a", "m", "e">>, <<"f", "i", "l", "e">>, <<"p", "a", "t", "h">>,
      <<"f", "i", "l", "e", "t", "y", "p", "e">>,
      <<"p", "a">>, <<"f">>, <<"x">> }
OptionArgs ==
    { [opt |-> "none", val |-> <<>>], [opt |-> "bad", val |-> <<>>],
      [opt |-> "-alpha -pressed", val |-> <<"0", ".", "5">>] }
    \cup { [opt |-> "-source", val |-> v] : v \in Sources }
    \cup { [opt |-> "-as", val |-> v] : v \in AsValues }

\* objc of an objv of OptionArgs.
Objc(args) ==
    CASE args.opt = "none"           -> 0
      [] args.opt = "-alpha -pressed" -> 4
      [] OTHER                        -> 2

\* Tk_SetOptions on the master: the fields after it, or ok = FALSE.
Tk_SetOptions(m, args) ==
    CASE args.opt = "bad"      -> [ok |-> FALSE, m |-> m]
      [] args.opt = "-source"  -> [ok |-> TRUE,
                                   m |-> [m EXCEPT !.source = Str(args.val)]]
      [] args.opt = "-as"      -> [ok |-> TRUE,
                                   m |-> [m EXCEPT !.as = Str(args.val)]]
      [] args.opt = "-alpha -pressed" ->
             [ok |-> TRUE, m |-> [m EXCEPT !.alpha = "0.5", !.pressed = TRUE]]
      [] OTHER                 -> [ok |-> TRUE, m |-> m]

\* TkNSImageConfigureMaster.  found: the loader returns an image;
\* isTemplate: [darkModeImage isTemplate]; fresh: the identity of the next
\* new NSImage.  loads counts the images loaded.
TkNSImageConfigureMaster(m, args, found, isTemplate, fresh) ==
    LET set == Tk_SetOptions(m, args)
        m1  == set.m
        idx == SourceInterpretation(m1.as)
        seen == [source |-> m1.source, as |-> m1.as]
    IN  IF ~set.ok THEN
            [ m |-> m1, result |-> "TCL_ERROR", msg |-> "Tk_SetOptions",
              setOK |-> FALSE, loader |-> "none", loads |-> 0,
              replaced |-> FALSE, seen |-> seen ]
        ELSE IF SourceMissing(m1.source) THEN
            [ m |-> m1, result |-> "TCL_ERROR",
              msg |-> "-source is required.",
              setOK |-> TRUE, loader |-> "none", loads |-> 0,
              replaced |-> FALSE, seen |-> seen ]
        ELSE IF idx = 0 THEN
            [ m |-> m1, result |-> "TCL_ERROR",
              msg |-> "Unknown interpretation for source in -as option.",
              setOK |-> TRUE, loader |-> "none", loads |-> 0,
              replaced |-> FALSE, seen |-> seen ]
        ELSE IF ~found THEN
            [ m |-> m1, result |-> "TCL_ERROR",
              msg |-> "Unknown named NSImage.",
              setOK |-> TRUE, loader |-> Loaders[idx], loads |-> 0,
              replaced |-> FALSE, seen |-> seen ]
        ELSE
            [ m |-> [m1 EXCEPT
                       !.image = [id |-> fresh,
                                  look |-> IF ~isTemplate /\ m1.pressed
                                           THEN "tinted black" ELSE "loaded"],
                       !.darkModeImage =
                                 [id |-> fresh + 1,
                                  look |-> IF isTemplate THEN "filled white"
                                           ELSE IF m1.pressed
                                           THEN "tinted white" ELSE "loaded"],
                       !.flags = 0],
              result |-> "TCL_OK", msg |-> "",
              setOK |-> TRUE, loader |-> Loaders[idx], loads |-> 1,
              replaced |-> TRUE, seen |-> seen ]

\* The references the master owns, per NSImage identity (the identities
\* are 1, 2, ... in the order of creation): +1 for each copy, alloc and
\* retain the master makes, -1 for each release.
ReleaseRef(owned, id) ==
    IF id = 0 THEN owned ELSE [owned EXCEPT ![id] = @ - 1]

\* The reference newImage carries when the loader hands it over:
\* [[NSImage imageNamed:] copy] and [[NSImage alloc] initWith...] are owned
\* by the caller, the icons of NSWorkspace are autoreleased.
LoaderRefs(loader) ==
    IF loader \in { "imageNamed", "initWithContentsOfFile" } THEN 1 ELSE 0

\* The references after TkNSImageConfigureMaster, called on master m, ended
\* with outcome out: when an image was loaded, the old pair is released
\* once each, the new image is retained on top of what the loader gave,
\* and the dark image is a copy that is retained as well.
ConfigureRefs(owned, m, out) ==
    IF out.loads = 0 THEN owned
    ELSE Append(Append(ReleaseRef(ReleaseRef(owned, m.image.id),
                                  m.darkModeImage.id),
                       LoaderRefs(out.loader) + 1),
                2)

\* The references after TkNSImageDelete: [masterPtr->image release];
\* [masterPtr->darkModeImage release].
DeleteRefs(owned, m) ==
    ReleaseRef(ReleaseRef(owned, m.image.id), m.darkModeImage.id)

\* lastCfg of a TkNSImageConfigureMaster outcome.
CfgRecord(out) ==
    [ result |-> out.result, msg |-> out.msg, setOK |-> out.setOK,
      loader |-> out.loader, loads |-> out.loads, replaced |-> out.replaced,
      seen |-> out.seen ]

Loaded == (nextImg - 1) \div 2

\* TkNSImageCreate: a failed Tk_InitOptions or configuration deletes the
\* master again.
DoCreate ==
    /\ master = NULL
    /\ Loaded < MaxLoads
    /\ \E args \in OptionArgs, initOK \in BOOLEAN, found \in BOOLEAN,
          isTemplate \in BOOLEAN :
          IF ~initOK THEN
              /\ found /\ ~isTemplate /\ args.opt = "none"
              /\ master' = NULL
              /\ lastCfg' = NULL
              /\ lastCmd' = [cmd |-> "image create", objc |-> Objc(args),
                             cfg |-> "none", result |-> "TCL_ERROR",
                             preserves |-> 0, releases |-> 0]
              /\ nextImg' = nextImg
              /\ refs' = refs
          ELSE
              LET out == TkNSImageConfigureMaster(NewMaster, args, found,
                                                  isTemplate, nextImg)
              IN  /\ (out.loader = "none" => found /\ ~isTemplate)
                  /\ (~found => ~isTemplate)
                  /\ master' = IF out.result = "TCL_OK" THEN out.m ELSE NULL
                  /\ lastCfg' = CfgRecord(out)
                  /\ lastCmd' = [cmd |-> "image create", objc |-> Objc(args),
                                 cfg |-> out.result, result |-> out.result,
                                 preserves |-> 0, releases |-> 0]
                  /\ nextImg' = nextImg + 2 * out.loads
                  /\ refs' = IF out.result = "TCL_OK"
                              THEN ConfigureRefs(refs, NewMaster, out)
                              ELSE DeleteRefs(refs, out.m)
    /\ lastDraw' = NULL
    /\ UNCHANGED <<printVars, request, imageVars, pixelVars, call, instances>>

\* TkNSImageObjCmd, "configure" with objc >= 4:
\*     TkNSImageConfigureMaster(interp, masterPtr, objc - 2, objv + 2);
\*     break;  ...  Tcl_Release(masterPtr); return TCL_OK;
ObjCmdConfigure(m, args, found, isTemplate, fresh) ==
    LET out == TkNSImageConfigureMaster(m, args, found, isTemplate, fresh)
    IN  [ out |-> out, result |-> "TCL_OK", preserves |-> 1, releases |-> 1 ]

\* The image command with "configure" and option-value arguments.
DoConfigure ==
    /\ master # NULL
    /\ Loaded < MaxLoads
    /\ \E args \in OptionArgs \ {[opt |-> "none", val |-> <<>>]},
          found \in BOOLEAN, isTemplate \in BOOLEAN :
          LET r == ObjCmdConfigure(master, args, found, isTemplate, nextImg)
          IN  /\ (r.out.loader = "none" => found /\ ~isTemplate)
              /\ (~found => ~isTemplate)
              /\ master' = r.out.m
              /\ lastCfg' = CfgRecord(r.out)
              /\ lastCmd' = [cmd |-> "configure", objc |-> 2 + Objc(args),
                             cfg |-> r.out.result, result |-> r.result,
                             preserves |-> r.preserves,
                             releases |-> r.releases]
              /\ nextImg' = nextImg + 2 * r.out.loads
              /\ refs' = ConfigureRefs(refs, master, r.out)
    /\ lastDraw' = NULL
    /\ UNCHANGED <<printVars, request, imageVars, pixelVars, call, instances>>

\* The other forms of the image command: too few arguments, an unknown
\* subcommand, cget, and configure with at most one argument.  known:
\* the option named by objv[2] exists.
ObjCmdQuery(sub, objc, known) ==
    IF objc < 2 THEN
        [result |-> "TCL_ERROR", preserves |-> 0, releases |-> 0]
    ELSE IF sub \notin {"cget", "configure"} THEN
        [result |-> "TCL_ERROR", preserves |-> 0, releases |-> 0]
    ELSE IF sub = "cget" THEN
        IF objc # 3 THEN
            [result |-> "TCL_ERROR", preserves |-> 1, releases |-> 0]
        ELSE IF ~known THEN
            [result |-> "TCL_ERROR", preserves |-> 1, releases |-> 1]
        ELSE [result |-> "TCL_OK", preserves |-> 1, releases |-> 1]
    ELSE IF objc = 2 THEN
        [result |-> "TCL_OK", preserves |-> 1, releases |-> 1]
    ELSE IF ~known THEN
        [result |-> "TCL_ERROR", preserves |-> 1, releases |-> 1]
    ELSE [result |-> "TCL_OK", preserves |-> 1, releases |-> 1]

DoQuery ==
    /\ master # NULL
    /\ \E sub \in {"cget", "configure", "bogus"}, objc \in 1..4,
          known \in BOOLEAN :
          /\ (sub = "configure" => objc <= 3)
          /\ (objc = 1 => sub = "bogus")
          /\ (sub = "bogus" => objc <= 2)
          /\ (objc # 3 => known)
          /\ LET r == ObjCmdQuery(sub, objc, known)
             IN  lastCmd' = [cmd |-> sub, objc |-> objc, cfg |-> "none",
                             result |-> r.result, preserves |-> r.preserves,
                             releases |-> r.releases]
    /\ lastCfg' = NULL
    /\ lastDraw' = NULL
    /\ UNCHANGED <<printVars, refs, request, imageVars, pixelVars, call, master, instances,
                   nextImg>>

\* TkNSImageGet: a new instance holding a pointer to the master; its image
\* and nextPtr fields are left unset and are never read.
TkNSImageGet(m, insts, token) ==
    [ master |-> m, instances |-> insts \cup { token } ]

DoGet ==
    /\ master # NULL
    /\ \E token \in (1..MaxInstances) \ instances :
          LET r == TkNSImageGet(master, instances, token)
          IN  /\ master' = r.master
              /\ instances' = r.instances
    /\ lastCfg' = NULL
    /\ lastCmd' = NULL
    /\ lastDraw' = NULL
    /\ UNCHANGED <<printVars, refs, request, imageVars, pixelVars, call, nextImg>>

\* TkNSImageFree: ckfree(instPtr).
TkNSImageFree(m, insts, token) ==
    [ master |-> m, instances |-> insts \ { token } ]

DoFree ==
    /\ \E token \in instances :
          LET r == TkNSImageFree(master, instances, token)
          IN  /\ master' = r.master
              /\ instances' = r.instances
    /\ lastCfg' = NULL
    /\ lastCmd' = NULL
    /\ lastDraw' = NULL
    /\ UNCHANGED <<printVars, refs, request, imageVars, pixelVars, call, nextImg>>

\* TkNSImageDisplay with the variants exchanged.
DisplayedImage_Exchanged(m, dark) ==
    IF dark THEN m.image ELSE m.darkModeImage

\* TkMacOSXInDarkMode(tkwin) ? masterPtr->darkModeImage : masterPtr->image
DisplayedImage(m, dark) ==
    IF dark THEN m.darkModeImage ELSE m.image

\* TkNSImageDisplay of an instance of master m.
TkNSImageDisplay(m, dark, setupOK, context) ==
    [ dark |-> dark,
      drew |-> setupOK /\ context,
      image |-> IF setupOK /\ context THEN DisplayedImage(m, dark)
                ELSE NoImage,
      alpha |-> IF setupOK /\ context THEN m.alpha ELSE "none",
      setups |-> IF setupOK THEN 1 ELSE 0,
      restores |-> IF setupOK THEN 1 ELSE 0 ]

DoDisplay ==
    /\ master # NULL
    /\ \E token \in instances, dark \in BOOLEAN, setupOK \in BOOLEAN,
          context \in BOOLEAN :
          /\ (~setupOK => context)
          /\ lastDraw' = [ inst |-> token,
                           out |-> TkNSImageDisplay(master, dark, setupOK,
                                                    context) ]
    /\ lastCfg' = NULL
    /\ lastCmd' = NULL
    /\ UNCHANGED <<printVars, refs, request, imageVars, pixelVars, call, master, instances,
                   nextImg>>

\* TkNSImageDelete: called when no instance is left.
DoDelete ==
    /\ master # NULL
    /\ instances = {}
    /\ master' = NULL
    /\ refs' = DeleteRefs(refs, master)
    /\ lastCfg' = NULL
    /\ lastCmd' = NULL
    /\ lastDraw' = NULL
    /\ UNCHANGED <<printVars, request, imageVars, pixelVars, call, instances, nextImg>>

NextNS ==
    DoCreate \/ DoConfigure \/ DoQuery \/ DoGet \/ DoFree \/ DoDisplay
        \/ DoDelete

---------------------------------------------------------------------------
(* The print dialog, macosx/tkMacOSXPrint.c                                *)
(* A status is "noErr" or "err".  What FinishPrint does is the sequence of *)
(* its actions, in order: "submit", "copy", "convert", "open", "alert".    *)

\* The values of the dialog's return code that FinishPrint compares with.
NSModalResponseCancel == 0
NSModalResponseOK     == 1

\* PMDestinationType.
kPMDestinationPrinter == 1
kPMDestinationFile    == 2
kPMDestinationFax     == 3
kPMDestinationPreview == 4

\* The first of PMCreateSession, PMCreatePrintSettings and
\* PMSessionDefaultPrintSettings that fails, or "none".
SessionFailures == { "none", "session", "settings", "defaults" }

\* What the print session tells FinishPrint:
\*   fail        the session call that fails, or "none"
\*   destStatus  status of PMSessionGetDestinationType
\*   dest        the destination it stores
\*   printer     "no printer": PMSessionGetCurrentPrinter fails;
\*               "mime error": PMPrinterGetMimeTypes fails;
\*               "no mime types": it stores NULL;
\*               "no pdf", "pdf": the list without / with application/pdf
\*   printStatus status of PMPrinterPrintWithFile
\*   locStatus   status of PMSessionCopyDestinationLocation
\*   ext         [finalPath pathExtension]
\*   exists      [fileManager fileExistsAtPath: sourcePath]
PrintSession ==
    [ fail |-> "none", destStatus |-> "noErr", dest |-> kPMDestinationPreview,
      printer |-> "pdf", printStatus |-> "noErr", locStatus |-> "noErr",
      ext |-> "pdf", exists |-> TRUE ]

\* The sessions that differ in something FinishPrint reads: a field is
\* varied only with the destination that makes FinishPrint read it.
PrintEnvs ==
    { [PrintSession EXCEPT !.fail = f] : f \in SessionFailures }
    \cup { [PrintSession EXCEPT !.destStatus = "err", !.dest = d] :
              d \in { kPMDestinationPrinter, kPMDestinationPreview } }
    \cup { [PrintSession EXCEPT !.dest = kPMDestinationFax] }
    \cup { [PrintSession EXCEPT !.dest = kPMDestinationPrinter,
                                !.printer = pr, !.printStatus = st] :
              pr \in { "no printer", "mime error", "no mime types", "no pdf",
                       "pdf" },
              st \in { "noErr", "err" } }
    \cup { [PrintSession EXCEPT !.dest = kPMDestinationFile,
                                !.locStatus = st, !.ext = e, !.exists = x] :
              st \in { "noErr", "err" }, e \in { "pdf", "ps", "txt" },
              x \in BOOLEAN }

\* buttonValue == NSModalResponseCancel
IsCancel(buttonValue) == buttonValue = NSModalResponseCancel

\* The printer takes the file whatever MIME types it lists.
AcceptsPDF_AnyList(printer) == printer \in { "no pdf", "pdf" }

\* status == noErr && mimeTypes != NULL && CFArrayContainsValue(mimeTypes,
\* ..., CFSTR("application/pdf"))
AcceptsPDF(printer) == printer = "pdf"

\* printDestination != kPMDestinationPreview || kPMDestinationFile ||
\* kPMDestinationPrinter, the last two operands being the constants
\* themselves, true when not 0.
Unsupported(dest) ==
    \/ dest # kPMDestinationPreview
    \/ kPMDestinationFile # 0
    \/ kPMDestinationPrinter # 0

\* What FinishPrint returns and does.  handled: the destination handling
\* (PMSessionGetDestinationType and what follows) was reached; releases:
\* CFRelease calls on urlFile; sessionReleases: PMRelease calls.
PrintOutcome(status, actions, handled, releases) ==
    [ status |-> status, actions |-> actions, handled |-> handled,
      releases |-> releases, sessionReleases |-> 0 ]

\* FinishPrint from the destination handling on (buttonValue ==
\* NSModalResponseOK and urlFile != NULL).
HandleDestination(env) ==
    LET isPrinter == env.destStatus = "noErr"
                        /\ env.dest = kPMDestinationPrinter
        \* status after the printer block, when it did not return
        s1 == IF ~isPrinter THEN env.destStatus
              ELSE IF env.printer \in { "no printer", "mime error" }
              THEN "err" ELSE "noErr"
        copies   == IF env.ext = "pdf" /\ env.exists THEN <<"copy">>
                    ELSE <<>>
        converts == IF env.ext = "ps" THEN <<"convert">> ELSE <<>>
    IN  IF isPrinter /\ AcceptsPDF(env.printer)
        THEN PrintOutcome(env.printStatus, <<"submit">>, TRUE, 1)
        ELSE IF s1 = "noErr" /\ env.dest = kPMDestinationFile
                  /\ env.locStatus = "noErr"
        THEN PrintOutcome("noErr", copies \o converts, TRUE, 0)
        ELSE LET s2 == IF s1 = "noErr" /\ env.dest = kPMDestinationFile
                       THEN env.locStatus ELSE s1
             IN  IF s2 = "noErr" /\ env.dest = kPMDestinationPreview
                 THEN PrintOutcome("noErr", <<"open">>, TRUE, 0)
                 ELSE IF s2 = "noErr" /\ Unsupported(env.dest)
                 THEN PrintOutcome("noErr", <<"alert">>, TRUE, 0)
                 ELSE PrintOutcome(s2, <<>>, TRUE, 0)

\* FinishPrint going on to print whatever the button.
FinishPrint_AnyButton(url, buttonValue, env) ==
    IF env.fail # "none" THEN PrintOutcome("err", <<>>, FALSE, 0)
    ELSE HandleDestination(env)

\* FinishPrint(file, buttonValue), with the global urlFile as it finds it.
FinishPrint(url, buttonValue, env) ==
    IF IsCancel(buttonValue)
    THEN PrintOutcome("noErr", <<>>, FALSE, 0)
    ELSE IF env.fail # "none"
    THEN PrintOutcome("err", <<>>, FALSE, 0)
    ELSE IF buttonValue = NSModalResponseOK
    THEN IF url = NULL
         THEN PrintOutcome("noErr", <<>>, FALSE, 0)
         ELSE HandleDestination(env)
    ELSE PrintOutcome("noErr", <<>>, FALSE, 0)

\* The file names given to the print command.
PrintFiles == { "a.pdf", "b.ps" }

\* What the modal print panel returns.
ButtonValues == { NSModalResponseCancel, NSModalResponseOK, 2 }

\* StartPrint.  startFail: the session call of StartPrint that fails;
\* buttonValue: what runModalWithPrintInfo returns; env: the session as
\* FinishPrint finds it.  The result holds the new urlFile, the CFRetain
\* and CFRelease calls made on it, and what FinishPrint did (NULL when it
\* was not called).
StartPrint(url, objc, file, startFail, buttonValue, env) ==
    IF objc < 2
    THEN [ result |-> "TCL_ERROR", urlFile |-> url, retains |-> 0,
           releases |-> 0, finish |-> NULL ]
    ELSE IF startFail # "none"
    THEN [ result |-> "TCL_ERROR", urlFile |-> [path |-> file],
           retains |-> 1, releases |-> 0, finish |-> NULL ]
    ELSE LET fin == FinishPrint([path |-> file], buttonValue, env)
         IN  [ result |-> "TCL_OK", urlFile |-> [path |-> file],
               retains |-> 1, releases |-> fin.releases, finish |-> fin ]

PrintCount == IF print = NULL THEN 0 ELSE print.n

\* The ::tk::print::_print command.
DoStartPrint ==
    /\ PrintCount < MaxPrints
    /\ \E objc \in 1..2, file \in PrintFiles, startFail \in SessionFailures,
          buttonValue \in ButtonValues, env \in PrintEnvs :
          \* inputs that are not read are held at one value
          /\ (objc < 2 => startFail = "none")
          /\ (objc < 2 \/ startFail # "none" =>
                  buttonValue = NSModalResponseCancel)
          /\ (buttonValue = NSModalResponseCancel => env = PrintSession)
          /\ (buttonValue \notin { NSModalResponseCancel, NSModalResponseOK }
                  => env.dest = kPMDestinationPreview
                        /\ env.destStatus = "noErr")
          /\ LET r == StartPrint(urlFile, objc, file, startFail, buttonValue,
                                 env)
             IN  /\ urlFile' = r.urlFile
                 /\ retained' = retained + r.retains - r.releases
                 /\ print' = [ n |-> PrintCount + 1, objc |-> objc,
                               startFail |-> startFail,
                               buttonValue |-> buttonValue, env |-> env,
                               out |-> r ]
    /\ UNCHANGED <<request, imageVars, pixelVars, call, nsVars>>

NextPrint == DoStartPrint

---------------------------------------------------------------------------
(* SpecImage                                                               *)

InitNS ==
    /\ master = NULL
    /\ instances = {}
    /\ nextImg = 1
    /\ lastCfg = NULL
    /\ lastCmd = NULL
    /\ lastDraw = NULL
    /\ refs = <<>>

InitPrint ==
    /\ urlFile = NULL
    /\ retained = 0
    /\ print = NULL

Init ==
    /\ request = 0
    /\ ximage = NULL
    /\ createArgs = NULL
    /\ cg = NULL
    /\ lastPut = NULL
    /\ lastGet = NULL
    /\ nputs = 0
    /\ call = NULL
    /\ InitNS
    /\ InitPrint

NextImage == DoXCreateImage \/ DoDestroyImage \/ DoCreateCGImage

SpecImage == Init /\ [][NextImage]_vars

SpecDraw == Init /\ [][NextDraw]_vars

SpecNS == Init /\ [][NextNS]_vars

SpecPrint == Init /\ [][NextPrint]_vars

---------------------------------------------------------------------------
(* Claims about XCreateImage and TkMacOSXCreateCGImageWithXImage           *)

IsPow2(n) == \E k \in 0..10 : n = Pow2(k)

\* C1 as stated: every XImage returned by XCreateImage has a bytes_per_line
\* that is a multiple of bitmap_pad/8 bytes, whatever the arguments
\* (including a caller-supplied non-zero bytes_per_line).
C1_StrideAlignedAlways ==
    ximage # NULL =>
        ximage.bytes_per_line % (ximage.bitmap_pad \div 8) = 0

\* C1 amended: when XCreateImage is called with bytes_per_line = 0 and a
\* bitmap_pad that is 0 (the default of 128 bits) or a power of two of at
\* least 8 bits, the stored bytes_per_line is a multiple of bitmap_pad/8
\* bytes.
C1_StrideAligned ==
    ( /\ ximage # NULL
      /\ createArgs.bytes_per_line = 0
      /\ createArgs.bitmap_pad = 0
            \/ (createArgs.bitmap_pad >= 8 /\ IsPow2(createArgs.bitmap_pad)) )
    => ximage.bytes_per_line % (ximage.bitmap_pad \div 8) = 0

\* A 1-bpp image of width 3 created with bytes_per_line = 0 and a 32-bit
\* pad: the stride is rounded up from 1 byte to 4.
C1_Witness ==
    /\ ximage # NULL
    /\ createArgs.bytes_per_line = 0
    /\ createArgs.bitmap_pad = 32
    /\ ximage.bits_per_pixel = 1
    /\ ximage.width = 3
    /\ ximage.bytes_per_line = 4

\* The smallest multiple of m that is at least n.
RoundUp(n, m) == ((n + m - 1) \div m) * m

\* ceil(width * bits_per_pixel / 8) for bits_per_pixel 32 or 1.
RowBytes(width, bits_per_pixel) ==
    IF bits_per_pixel = 32 THEN 4 * width ELSE (width + 7) \div 8

\* C16 (as stated): when XCreateImage is called with bytes_per_line = 0 and
\* bitmap_pad in {0, 8, 16, 32} (0 meaning 128 bits), the stored
\* bytes_per_line is the smallest multiple of bitmap_pad/8 that is at least
\* ceil(width * bits_per_pixel / 8), with bits_per_pixel 32 for ZPixmap and
\* 1 for every other format whatever the depth, for every width of a
\* 32-bit unsigned integer.
C16_StrideFormula ==
    ( /\ ximage # NULL
      /\ createArgs.bytes_per_line = 0
      /\ createArgs.bitmap_pad \in {0, 8, 16, 32} )
    => /\ ximage.bits_per_pixel = (IF ximage.format = "ZPixmap" THEN 32 ELSE 1)
       /\ ximage.bytes_per_line =
              RoundUp(RowBytes(ximage.width, ximage.bits_per_pixel),
                      ximage.bitmap_pad \div 8)

\* C2 as stated: TkMacOSXCreateCGImageWithXImage copies exactly
\* bytes_per_line * height bytes and reads no byte outside the data buffer
\* of bytes_per_line * height bytes, for every supported image and every
\* xoffset >= 0.
C2_CopyWithinBuffer ==
    (cg # NULL /\ cg.copy # "none") =>
        /\ cg.copied = ximage.bytes_per_line * ximage.height
        /\ \A o \in cg.reads : 0 <= o /\ o < Len(ximage.data)

\* C17 (as stated): every pixel-data copy, data provider and colour space
\* that TkMacOSXCreateCGImageWithXImage allocates is released before it
\* returns or is freed when the caller releases the returned image, and
\* nothing stays allocated when it returns NULL; in the 1-bpp branch, the
\* 32-bpp branch (the 0x0 return included) and the unsupported branch.
C17_NothingStaysAllocated ==
    cg # NULL =>
        cg.leaked = [ data |-> 0, provider |-> 0, colorspace |-> 0 ]

---------------------------------------------------------------------------
(* Claims about the drawing calls                                          *)

IsPut == call # NULL /\ call.fn \in {"XPutImage", "TkpPutRGBAImage"}

\* The conversion of the image of a put call to a native image fails: for
\* the image itself (its depth is neither 1 nor that of a 32-bit ZPixmap,
\* or it is a 0x0 32-bit ZPixmap), or because the native provider or image
\* could not be created.
CannotConvert(a) ==
    LET image == a.image
        supported == \/ image.bits_per_pixel = 1
                     \/ (image.format = "ZPixmap" /\ image.bits_per_pixel = 32)
        empty32 == /\ image.bits_per_pixel = 32
                   /\ image.width = 0 /\ image.height = 0
    IN  ~supported \/ empty32 \/ ~a.providerOK \/ ~a.imageOK

\* C4: XPutImage and TkpPutRGBAImage return only BadDrawable or Success:
\* BadDrawable when the drawing context cannot be set up, when the
\* destination has no graphics context, or when the XImage cannot be
\* converted to a native image; Success otherwise.  The image is drawn only
\* in the Success case, and the two functions return the same code for the
\* same arguments.
C4_PutImageResult ==
    IsPut =>
        LET a == call.args
            bad == ~a.setupOK \/ ~a.dst.context \/ CannotConvert(a)
        IN  /\ call.out.result \in {"BadDrawable", "Success"}
            /\ call.out.result = (IF bad THEN "BadDrawable" ELSE "Success")
            /\ call.out.drew <=> (call.out.result = "Success")
            /\ call.twin = call.out.result

\* A put of a 0x0 32-bit ZPixmap into a drawable with a context: refused.
C4_Witness ==
    /\ IsPut
    /\ call.args.setupOK
    /\ call.args.dst.context
    /\ call.args.image.format = "ZPixmap"
    /\ call.args.image.bits_per_pixel = 32
    /\ call.args.image.width = 0
    /\ call.args.image.height = 0
    /\ call.args.providerOK
    /\ call.args.imageOK
    /\ call.out.result = "BadDrawable"
    /\ ~call.out.drew

\* C5 as stated: every CGImage created during a call of XPutImage,
\* TkpPutRGBAImage, XCopyArea, XCopyPlane or XGetImage is released exactly
\* once before the call returns, on every path.
C5_ImagesReleasedOnce ==
    call # NULL =>
        \A i \in 1..Len(call.out.images) : call.out.images[i] = 1

\* C18 (as stated): every successful TkMacOSXSetupDrawingContext in
\* XPutImage, TkpPutRGBAImage, XCopyArea, XCopyPlane and TkNSImageDisplay is
\* followed by exactly one TkMacOSXRestoreDrawingContext before the
\* function returns, on every path, those without a graphics context or
\* without a source image included.
C18_SetupRestored ==
    /\ (call # NULL /\ call.fn \in { "XPutImage", "TkpPutRGBAImage",
                                     "XCopyArea", "XCopyPlane" })
          => call.out.restores = call.out.setups
    /\ lastDraw # NULL => lastDraw.out.restores = lastDraw.out.setups

\* The captured bitmap is one XGetImage accepts.
BitmapAccepted(bitmap, width, height) ==
    /\ bitmap.fmt \in {0, 1}
    /\ bitmap.samplesPerPixel = 4
    /\ ~bitmap.isPlanar
    /\ bitmap.bytes_per_row >= 4 * width
    /\ bitmap.size = bitmap.bytes_per_row * height

---------------------------------------------------------------------------
(* The nsimage claims, under SpecNS                                        *)

\* C7 (as stated): once the options are set, TkNSImageConfigureMaster fails
\* with "-source is required." and TCL_ERROR exactly when -source is unset
\* or is the empty string; every non-empty -source passes this check.
C7_SourceRequired ==
    (lastCfg # NULL /\ lastCfg.setOK) =>
        ( (lastCfg.result = "TCL_ERROR"
              /\ lastCfg.msg = "-source is required.")
          <=> (lastCfg.seen.source.null \/ lastCfg.seen.source.s = <<>>) )

\* The four interpretations, written out in full.
FullNames == { sourceInterpretations[i] : i \in 1..Len(sourceInterpretations) }

\* The entries of sourceInterpretations that begin with the characters as.
Abbreviated(as) ==
    { i \in 1..Len(sourceInterpretations) :
          IsPrefix(as, sourceInterpretations[i]) }

\* The entry a value of -as selects: the one equal to it, else the only
\* one it is a non-empty beginning of; 0 if there is none.
Selected(as) ==
    IF as \in FullNames
    THEN CHOOSE i \in 1..Len(sourceInterpretations) :
             sourceInterpretations[i] = as
    ELSE IF as # <<>> /\ Cardinality(Abbreviated(as)) = 1
    THEN CHOOSE i \in Abbreviated(as) : TRUE
    ELSE 0

\* A configuration that got as far as interpreting -as.
ReachedAs ==
    /\ lastCfg # NULL
    /\ lastCfg.setOK
    /\ lastCfg.msg # "-source is required."

C9_InstancesHoldReferences ==
    /\ [][ instances' # instances =>
              /\ master' = master
              /\ \/ \E t \in instances' : instances' \ {t} = instances
                 \/ \E t \in instances : instances \ {t} = instances' ]_vars
    /\ []( (lastDraw # NULL /\ lastDraw.out.drew) =>
              /\ lastDraw.inst \in instances
              /\ master # NULL
              /\ lastDraw.out.image =
                     (IF lastDraw.out.dark THEN master.darkModeImage
                      ELSE master.image)
              /\ lastDraw.out.alpha = master.alpha )

\* With two instances live and the master reconfigured to its second image
\* and a new alpha, an instance is drawn in dark mode.
C9_Witness ==
    /\ lastDraw # NULL
    /\ lastDraw.out.drew
    /\ lastDraw.out.dark
    /\ Cardinality(instances) = 2
    /\ master.image.id = 3
    /\ lastDraw.out.image.id = 4
    /\ lastDraw.out.alpha = "0.5"

\* C10 (as stated): "configure" with option-value arguments returns
\* TCL_ERROR whenever the reconfiguration fails and TCL_OK only when it
\* succeeds.
C10_ConfigureReportsFailure ==
    (lastCmd # NULL /\ lastCmd.cmd = "configure" /\ lastCmd.objc >= 4) =>
        /\ (lastCmd.cfg = "TCL_ERROR" => lastCmd.result = "TCL_ERROR")
        /\ (lastCmd.result = "TCL_OK" => lastCmd.cfg = "TCL_OK")


\* C19 (as stated): every NSImage the master takes ownership of is fully
\* released when a later successful reconfigure replaces it or when the
\* master is deleted: the master's retains and copies are matched by as
\* many releases, so that an image it no longer holds, and after
\* TkNSImageDelete every image, has no outstanding reference of the master.
C19_ImagesFullyReleased ==
    \A id \in 1..Len(refs) :
        (master = NULL
            \/ id \notin { master.image.id, master.darkModeImage.id })
        => refs[id] = 0

---------------------------------------------------------------------------
(* The print dialog claims, under SpecPrint                                *)

\* FinishPrint ran in the last invocation.
Finished == print # NULL /\ print.out.finish # NULL

\* The printing actions of a sequence of actions: all but the alert.
DestinationActions(actions) ==
    SelectSeq(actions, LAMBDA a : a # "alert")

\* C11: when the dialog is cancelled (NSModalResponseCancel), FinishPrint
\* returns noErr and does nothing: nothing is sent to a printer, copied or
\* converted, no preview is opened and no alert is shown.
C11_CancelDoesNothing ==
    (Finished /\ print.buttonValue = NSModalResponseCancel) =>
        /\ print.out.finish.status = "noErr"
        /\ print.out.finish.actions = <<>>
        /\ ~print.out.finish.handled

\* A second invocation, for a file name given with objc = 2, is cancelled.
C11_Witness ==
    /\ Finished
    /\ print.n = 2
    /\ print.objc = 2
    /\ print.buttonValue = NSModalResponseCancel
    /\ print.out.result = "TCL_OK"
    /\ print.out.finish.actions = <<>>

\* C12 (as stated): for every button value other than NSModalResponseCancel
\* FinishPrint goes on to the destination handling, whatever the value.
C12_PrintsUnlessCancelled ==
    (Finished /\ print.buttonValue # NSModalResponseCancel) =>
        print.out.finish.handled

\* The session of the last invocation was set up and told its destination.
SessionOK ==
    print.env.fail = "none" /\ print.env.destStatus = "noErr"

\* C13: a confirmed dialog leads to at most one printing action, the one
\* of the chosen destination: the file is submitted exactly for a printer
\* that accepts application/pdf; for a file destination whose location is
\* known it is copied exactly when the extension is pdf (and the source
\* exists) and converted exactly when the extension is ps; it is opened
\* exactly for the preview destination.
C13_OneDestinationAction ==
    (Finished /\ print.buttonValue = NSModalResponseOK) =>
        LET e == print.env
            done == DestinationActions(print.out.finish.actions)
            toFile == SessionOK /\ e.dest = kPMDestinationFile
                         /\ e.locStatus = "noErr"
        IN  /\ Len(done) <= 1
            /\ (done = <<"submit">>) <=>
                   (SessionOK /\ e.dest = kPMDestinationPrinter
                       /\ e.printer = "pdf")
            /\ (done = <<"copy">>) <=>
                   (toFile /\ e.ext = "pdf" /\ e.exists)
            /\ (done = <<"convert">>) <=> (toFile /\ e.ext = "ps")
            /\ (done = <<"open">>) <=>
                   (SessionOK /\ e.dest = kPMDestinationPreview)

\* The dialog is confirmed with a file destination ending in ps: the file
\* is converted and nothing else is done.
C13_Witness ==
    /\ Finished
    /\ print.buttonValue = NSModalResponseOK
    /\ print.env.dest = kPMDestinationFile
    /\ print.env.ext = "ps"
    /\ print.out.finish.actions = <<"convert">>

\* C14 (as stated): the "Unsupported Printing Operation" alert is shown
\* exactly when the dialog was confirmed and the destination is none of
\* printer, file and preview; never for one of these three.
C14_AlertOnlyWhenUnsupported ==
    Finished =>
        ( (\E i \in 1..Len(print.out.finish.actions) :
               print.out.finish.actions[i] = "alert")
          <=> ( /\ print.buttonValue = NSModalResponseOK
                /\ SessionOK
                /\ print.env.dest \notin { kPMDestinationPrinter,
                                           kPMDestinationFile,
                                           kPMDestinationPreview } ) )

\* C15 (as stated): the reference to the file path that StartPrint retains
\* is released exactly once by the time StartPrint returns, on every path,
\* so that no retained reference remains after any sequence of invocations.
C15_PathReleased ==
    /\ retained = 0
    /\ print # NULL => print.out.retains = print.out.releases

====
